---- MODULE Spec2Model ----
(***************************************************************************)
(* Model of add-connect-calls.py: a line-oriented rewriter that inserts a  *)
(* ConnectToEventBus call after the brace block of every                   *)
(* `x := [spatial.]NewBasicRoom[Orchestrator](` declaration.               *)
(*                                                                         *)
(* A file is a flat sequence of tokens; a token stands for a run of        *)
(* characters ("{" and "}" are single characters, "\n" ends a line).       *)
(* A line is the sequence of tokens up to and including its "\n".          *)
(* Indices i and j are 0-based as in the script: lines[i] is Lines[i+1].   *)
(***************************************************************************)
EXTENDS Integers, Sequences, FiniteSets, TLC

\* ---------------------------------------------------------------- bounds
MaxLines == 3
MaxRuns == 2

\* ---------------------------------------------------------------- tokens
Whitespace == {" ", "\t", "\n"}
Words == {"r", "s", "x"}
Factories == {"NewBasicRoom(", "NewBasicRoomOrchestrator("}
NoMatch == "<none>"
ArgCounts == {1, 2, 3}

UsageMsg == "Usage: python3 add-connect-calls.py <filename>"
FixedMsg == "Fixed EventBus connections in <filename>"

\* Brace tails used to build the input lines.
Tails == { <<>>, <<"{">>, <<"}">>, <<"{", "}">>, <<"}", "{">> }

PlainLines == { <<"x">> \o t \o <<"\n">> : t \in Tails \ {<<"{", "}">>} }
DeclLines ==
  { <<"r", ":=", "NewBasicRoom(">> \o t \o <<"\n">> : t \in Tails \ {<<"}">>} }
  \cup { <<"\t", "s", " ", ":=", " ", "spatial.", "NewBasicRoomOrchestrator(",
           "{", "}", "\n">> }
LookalikeLines == { <<"r", "=", "NewBasicRoom(", "{", "}", "\n">> }
LineSet == PlainLines \cup DeclLines \cup LookalikeLines

\* ------------------------------------------------------- file <-> lines
RECURSIVE WriteLines(_)
WriteLines(ls) ==
  IF ls = <<>> THEN <<>> ELSE Head(ls) \o WriteLines(Tail(ls))

RECURSIVE ReadLinesFrom(_, _)
ReadLinesFrom(f, cur) ==
  IF f = <<>> THEN (IF cur = <<>> THEN <<>> ELSE <<cur>>)
  ELSE IF Head(f) = "\n" THEN <<Append(cur, "\n")>> \o ReadLinesFrom(Tail(f), <<>>)
  ELSE ReadLinesFrom(Tail(f), Append(cur, Head(f)))

ReadLines(f) == ReadLinesFrom(f, <<>>)

\* ------------------------------------------------------------ the regex
RECURSIVE SkipWs(_, _)
SkipWs(line, k) ==
  IF k <= Len(line) /\ line[k] \in Whitespace THEN SkipWs(line, k + 1) ELSE k

Tok(line, k) == IF k <= Len(line) THEN line[k] ELSE NoMatch

ReMatchLoose(line) ==
  LET a == SkipWs(line, 1)
      b == SkipWs(line, a + 1)
      c == SkipWs(line, b + 1)
      d == IF Tok(line, c) = "spatial." THEN c + 1 ELSE c
  IN IF /\ Tok(line, a) \in Words
        /\ Tok(line, b) \in {":=", "="}
        /\ Tok(line, d) \in Factories
     THEN line[a] ELSE NoMatch

\* re.match(r'\s*(\w+)\s*:=\s*(spatial\.)?New(BasicRoom|BasicRoomOrchestrator)\(')
\* returns group(1), or NoMatch.
ReMatch(line) ==
  LET a == SkipWs(line, 1)
      b == SkipWs(line, a + 1)
      c == SkipWs(line, b + 1)
      d == IF Tok(line, c) = "spatial." THEN c + 1 ELSE c
  IN IF /\ Tok(line, a) \in Words
        /\ Tok(line, b) = ":="
        /\ Tok(line, d) \in Factories
     THEN line[a] ELSE NoMatch

SynthLineNoTab(v) == <<v, ".ConnectToEventBus(eventBus)", "\n">>

\* f"\t{var_name}.ConnectToEventBus(eventBus)\n"
SynthLine(v) == <<"\t", v, ".ConnectToEventBus(eventBus)", "\n">>

\* ------------------------------------------------- the character loop
RECURSIVE ScanCharsNoOpen(_, _, _, _)
ScanCharsNoOpen(line, k, count, found) ==
  IF k > Len(line) THEN [count |-> count, found |-> found, hit |-> FALSE]
  ELSE IF line[k] = "{" THEN ScanCharsNoOpen(line, k + 1, count + 1, found)
  ELSE IF line[k] = "}" THEN
    IF found /\ count - 1 = 0
    THEN [count |-> count - 1, found |-> found, hit |-> TRUE]
    ELSE ScanCharsNoOpen(line, k + 1, count - 1, found)
  ELSE ScanCharsNoOpen(line, k + 1, count, found)

\* for char in current_line: ... ; hit = the append-and-break was taken
RECURSIVE ScanChars(_, _, _, _)
ScanChars(line, k, count, found) ==
  IF k > Len(line) THEN [count |-> count, found |-> found, hit |-> FALSE]
  ELSE IF line[k] = "{" THEN ScanChars(line, k + 1, count + 1, TRUE)
  ELSE IF line[k] = "}" THEN
    IF found /\ count - 1 = 0
    THEN [count |-> count - 1, found |-> found, hit |-> TRUE]
    ELSE ScanChars(line, k + 1, count - 1, found)
  ELSE ScanChars(line, k + 1, count, found)

\* ----------------------------------------------------------------- state
VARIABLES
  file,           \* content of the target file (flat token sequence)
  argc,           \* len(sys.argv) of the current invocation
  pc,             \* position of the current invocation
  lines, output_lines, i, j, var_name, bracket_count, found_opening,
  stdout, exit_code,
  run,            \* history: number of the current invocation
  file0,          \* history: file content when the invocation started
  src,            \* history: origin of each output line; k > 0: copy of
                  \*   Lines[k]; -k: synthesized by the scan started at Lines[k]
  outerSeen,      \* history: 1-based indices examined by the outer loop
  scans,          \* history: the scans started, in order
  log             \* history: one record per completed rewrite

vars == <<file, argc, pc, lines, output_lines, i, j, var_name, bracket_count,
          found_opening, stdout, exit_code, run, file0, src, outerSeen,
          scans, log>>

locals == <<lines, output_lines, i, j, var_name, bracket_count, found_opening>>
hist == <<src, outerSeen, scans>>

Inputs == UNION { [1..n -> LineSet] : n \in 0..MaxLines }

DropLast(s) == IF s = <<>> THEN s ELSE SubSeq(s, 1, Len(s) - 1)

\* The files the tool is run on: with and without a final newline.
Files == UNION { {WriteLines(ls), DropLast(WriteLines(ls))} : ls \in Inputs }

InitOn(F) ==
  /\ file \in F
  /\ file0 = file
  /\ argc = 0
  /\ pc = "start"
  /\ lines = <<>> /\ output_lines = <<>>
  /\ i = 0 /\ j = 0 /\ var_name = NoMatch
  /\ bracket_count = 0 /\ found_opening = FALSE
  /\ stdout = <<>> /\ exit_code = -1
  /\ run = 1
  /\ src = <<>> /\ outerSeen = <<>> /\ scans = <<>> /\ log = <<>>

Init == InitOn(Files)

\* if len(sys.argv) != 2: print usage; sys.exit(1)
Usage ==
  /\ pc = "start"
  /\ \E n \in ArgCounts : n # 2 /\ argc' = n
  /\ stdout' = Append(stdout, UsageMsg)
  /\ exit_code' = 1
  /\ pc' = "exit"
  /\ UNCHANGED <<file, locals, run, file0, hist, log>>

ReadFileTrunc ==
  /\ pc = "start"
  /\ argc' = 2
  /\ file' = <<>>
  /\ lines' = ReadLines(file)
  /\ output_lines' = <<>>
  /\ i' = 0
  /\ pc' = "outer"
  /\ UNCHANGED <<j, var_name, bracket_count, found_opening, stdout,
                 exit_code, run, file0, hist, log>>

\* fix_eventbus_connections entry: readlines, output_lines = [], i = 0
ReadFile ==
  /\ pc = "start"
  /\ argc' = 2
  /\ lines' = ReadLines(file)
  /\ output_lines' = <<>>
  /\ i' = 0
  /\ pc' = "outer"
  /\ UNCHANGED <<file, j, var_name, bracket_count, found_opening, stdout,
                 exit_code, run, file0, hist, log>>

\* one pass of `while i < len(lines)` up to the start of the inner loop
OuterStep ==
  /\ pc = "outer"
  /\ i < Len(lines)
  /\ LET line == lines[i + 1]
         m == ReMatch(line)
     IN /\ output_lines' = Append(output_lines, line)
        /\ src' = Append(src, i + 1)
        /\ outerSeen' = Append(outerSeen, i + 1)
        /\ IF m # NoMatch
           THEN /\ var_name' = m
                /\ bracket_count' = 0
                /\ found_opening' = FALSE
                /\ j' = i
                /\ pc' = "inner"
                /\ scans' = Append(scans, [at |-> i, ident |-> m,
                                           end |-> "running", stop |-> -1])
                /\ UNCHANGED i
           ELSE /\ i' = i + 1
                /\ UNCHANGED <<var_name, bracket_count, found_opening, j, pc,
                               scans>>
  /\ UNCHANGED <<file, argc, lines, stdout, exit_code, run, file0, log>>

SetLast(s, e) == [s EXCEPT ![Len(s)] = e]

InnerStepDup ==
  /\ pc = "inner"
  /\ j < Len(lines)
  /\ LET current_line == lines[j + 1]
         r == ScanChars(current_line, 1, bracket_count, found_opening)
         out1 == IF r.hit THEN Append(output_lines, SynthLine(var_name))
                 ELSE output_lines
         src1 == IF r.hit THEN Append(src, -(i + 1)) ELSE src
     IN /\ bracket_count' = r.count
        /\ found_opening' = r.found
        /\ IF r.found /\ r.count = 0
           THEN /\ output_lines' = out1
                /\ src' = src1
                /\ i' = j + 1
                /\ pc' = "outer"
                /\ scans' = SetLast(scans, [scans[Len(scans)] EXCEPT
                                            !.end = "break", !.stop = j])
                /\ UNCHANGED j
           ELSE /\ output_lines' = Append(out1, current_line)
                /\ src' = Append(src1, j + 1)
                /\ j' = j + 1
                /\ UNCHANGED <<i, pc, scans>>
  /\ UNCHANGED <<file, argc, lines, var_name, stdout, exit_code, run, file0,
                 outerSeen, log>>

\* one pass of `while j < len(lines)`; on break also `i = j; i += 1`
InnerStep ==
  /\ pc = "inner"
  /\ j < Len(lines)
  /\ LET current_line == lines[j + 1]
         r == ScanChars(current_line, 1, bracket_count, found_opening)
         out1 == IF r.hit THEN Append(output_lines, SynthLine(var_name))
                 ELSE output_lines
         src1 == IF r.hit THEN Append(src, -(i + 1)) ELSE src
     IN /\ bracket_count' = r.count
        /\ found_opening' = r.found
        /\ IF r.found /\ r.count = 0
           THEN /\ output_lines' = out1
                /\ src' = src1
                /\ i' = j + 1
                /\ pc' = "outer"
                /\ scans' = SetLast(scans, [scans[Len(scans)] EXCEPT
                                            !.end = "break", !.stop = j])
                /\ UNCHANGED j
           ELSE /\ output_lines' = IF j > i THEN Append(out1, current_line)
                                   ELSE out1
                /\ src' = IF j > i THEN Append(src1, j + 1) ELSE src1
                /\ j' = j + 1
                /\ UNCHANGED <<i, pc, scans>>
  /\ UNCHANGED <<file, argc, lines, var_name, stdout, exit_code, run, file0,
                 outerSeen, log>>

InnerExitNoSkip ==
  /\ pc = "inner"
  /\ j >= Len(lines)
  /\ i' = i + 1
  /\ pc' = "outer"
  /\ scans' = SetLast(scans, [scans[Len(scans)] EXCEPT
                              !.end = "eof", !.stop = j])
  /\ UNCHANGED <<file, argc, lines, output_lines, j, var_name, bracket_count,
                 found_opening, stdout, exit_code, run, file0, src, outerSeen,
                 log>>

\* the inner loop ran off the end of the file: `i = j; i += 1`
InnerExit ==
  /\ pc = "inner"
  /\ j >= Len(lines)
  /\ i' = j + 1
  /\ pc' = "outer"
  /\ scans' = SetLast(scans, [scans[Len(scans)] EXCEPT
                              !.end = "eof", !.stop = j])
  /\ UNCHANGED <<file, argc, lines, output_lines, j, var_name, bracket_count,
                 found_opening, stdout, exit_code, run, file0, src, outerSeen,
                 log>>

NumSynth(s) == Cardinality({p \in 1..Len(s) : s[p] < 0})

\* outer loop done: open(filename, 'w'); f.writelines(output_lines)
WriteFile ==
  /\ pc = "outer"
  /\ i >= Len(lines)
  /\ file' = WriteLines(output_lines)
  /\ pc' = "print"
  /\ log' = Append(log, [inp |-> lines, out |-> output_lines,
                         ins |-> NumSynth(src)])
  /\ UNCHANGED <<argc, locals, stdout, exit_code, run, file0, hist>>

\* print(f"Fixed EventBus connections in {sys.argv[1]}"); normal exit
PrintFixed ==
  /\ pc = "print"
  /\ stdout' = Append(stdout, FixedMsg)
  /\ exit_code' = 0
  /\ pc' = "done"
  /\ UNCHANGED <<file, argc, locals, run, file0, hist, log>>

\* the tool is run again on the file it has just rewritten
Reinvoke ==
  /\ pc = "done"
  /\ run < MaxRuns
  /\ run' = run + 1
  /\ file0' = file
  /\ argc' = 0
  /\ pc' = "start"
  /\ lines' = <<>> /\ output_lines' = <<>>
  /\ i' = 0 /\ j' = 0 /\ var_name' = NoMatch
  /\ bracket_count' = 0 /\ found_opening' = FALSE
  /\ stdout' = <<>> /\ exit_code' = -1
  /\ src' = <<>> /\ outerSeen' = <<>> /\ scans' = <<>>
  /\ UNCHANGED <<file, log>>

Next ==
  \/ Usage
  \/ ReadFile
  \/ OuterStep
  \/ InnerStep
  \/ InnerExit
  \/ WriteFile
  \/ PrintFixed
  \/ Reinvoke

Spec == Init /\ [][Next]_vars

\* The script is a single sequential process: it always takes its next step.
\* Termination is checked over the inputs built from a smaller set of lines.
LiveLineSet ==
  { <<"x", "}", "\n">>, <<"x", "{", "\n">> }
  \cup { <<"r", ":=", "NewBasicRoom(">> \o t \o <<"\n">> : t \in Tails \ {<<"}">>} }

LiveFiles ==
  { WriteLines(ls) : ls \in UNION { [1..n -> LiveLineSet] : n \in 0..MaxLines } }

InitLive == InitOn(LiveFiles)

FairSpec == InitLive /\ [][Next]_vars /\ WF_vars(Next)

\* ------------------------------------------------------------------------
\* Reference notions used by the properties.  They are stated on the input
\* text alone and do not use the operators that model the script.
\* ------------------------------------------------------------------------
IsPrefix(p, s) == Len(p) <= Len(s) /\ SubSeq(s, 1, Len(p)) = p

IsInk(t) == t \notin {" ", "\t", "\n"}
Ink(s) == SelectSeq(s, IsInk)

\* line starts, up to blanks, with `id := F(` or `id := spatial.F(` for a
\* recognized factory F (no blank between `spatial.` and F).
DeclOf(line, id) ==
  \E p \in 1..Len(line) :
    /\ line[p] \in Factories
    /\ \/ Ink(SubSeq(line, 1, p - 1)) = <<id, ":=">>
       \/ /\ Ink(SubSeq(line, 1, p - 1)) = <<id, ":=", "spatial.">>
          /\ line[p - 1] = "spatial."
DeclShape(line) == \E id \in Words : DeclOf(line, id)
DeclIdent(line) == CHOOSE id \in Words : DeclOf(line, id)

ConnectText(id) == <<"\t", id, ".ConnectToEventBus(eventBus)", "\n">>

IsBrace(t) == t \in {"{", "}"}
Braces(line) == SelectSeq(line, IsBrace)

\* The brace characters of lines a..b (1-based), in order.
RECURSIVE BraceStr(_, _, _)
BraceStr(ls, a, b) ==
  IF a > b THEN <<>> ELSE BraceStr(ls, a, b - 1) \o Braces(ls[b])

\* Opening minus closing braces among the first m braces of s.
Depth(s, m) ==
  Cardinality({p \in 1..m : s[p] = "{"}) - Cardinality({p \in 1..m : s[p] = "}"})

ZeroAfterOpen(s, m) == Depth(s, m) = 0 /\ \E p \in 1..m : s[p] = "{"

\* Position of the first brace at which the count is zero after an opening
\* brace has been seen; 0 when there is none.
FirstZero(s) ==
  IF \E m \in 1..Len(s) : ZeroAfterOpen(s, m)
  THEN CHOOSE m \in 1..Len(s) :
         ZeroAfterOpen(s, m) /\ \A q \in 1..(m - 1) : ~ZeroAfterOpen(s, q)
  ELSE 0

FromDecl(ls, k) == BraceStr(ls, k, Len(ls))

\* The declaration at line k opens a block that closes without the count
\* ever dropping below one in between.
Balanced(ls, k) ==
  LET s == FromDecl(ls, k)
      m == FirstZero(s)
  IN m > 0 /\ \A q \in 1..(m - 1) : Depth(s, q) > 0

\* The count first returns to zero, after an opening brace, at a closing brace.
ClosesAtBrace(ls, k) ==
  LET s == FromDecl(ls, k)
      m == FirstZero(s)
  IN m > 0 /\ s[m] = "}"

\* The line holding the brace at which the block of line k closes.
CloseLine(ls, k) ==
  LET m == FirstZero(FromDecl(ls, k))
  IN CHOOSE c \in k..Len(ls) :
       Len(BraceStr(ls, k, c - 1)) < m /\ m <= Len(BraceStr(ls, k, c))

DeclAt(ls) == {k \in 1..Len(ls) : DeclShape(ls[k])}
Range(s) == {s[p] : p \in 1..Len(s)}
PosOf(s, v) == {p \in 1..Len(s) : s[p] = v}
Finished == pc \in {"print", "done"}

\* The output with the lines the run synthesized taken out.
RECURSIVE KeepCopies(_, _)
KeepCopies(out, s) ==
  IF out = <<>> THEN <<>>
  ELSE IF Head(s) < 0 THEN KeepCopies(Tail(out), Tail(s))
  ELSE <<Head(out)>> \o KeepCopies(Tail(out), Tail(s))

\* ------------------------------------------------------------------------
\* C1: when no input line is a declaration, the lines written back are the
\* input lines exactly, whatever braces they contain, and the file is
\* left with its original content.
C1_NoDeclIdentity ==
  (Finished /\ DeclAt(lines) = {}) =>
     (output_lines = lines /\ file = file0)

C1_Witness ==
  /\ pc = "done" /\ DeclAt(lines) = {} /\ Len(lines) = 3
  /\ \E k \in 1..3 : Braces(lines[k]) = <<"}", "{">>
  /\ \E k \in 1..3 : IsPrefix(<<"r", "=", "NewBasicRoom(", "{", "}">>, lines[k])

\* C2: with a single declaration whose initializer is a balanced brace block
\* closing at line c, the output is lines 1..c, then one ConnectToEventBus
\* line for the identifier, then the remaining lines (one line more than
\* the input, the closing line kept).
C2_SingleBalancedInsert ==
  (Finished /\ Cardinality(DeclAt(lines)) = 1) =>
    LET k == CHOOSE d \in DeclAt(lines) : TRUE
    IN Balanced(lines, k) =>
         LET c == CloseLine(lines, k)
         IN /\ output_lines = SubSeq(lines, 1, c)
                                \o <<ConnectText(DeclIdent(lines[k]))>>
                                \o SubSeq(lines, c + 1, Len(lines))
            /\ Len(output_lines) = Len(lines) + 1

\* C3: taking the synthesized lines out of the output gives back the input:
\* no input line is dropped, duplicated, reordered or altered.
C3_OnlyInsertions ==
  Finished => KeepCopies(output_lines, src) = lines

\* C4 (as claimed): every declaration line from which the brace count returns
\* to zero at a closing brace, a line lying inside another declaration's scan
\* included, gets one synthesized line for its identifier.
C4_EveryDeclGetsLine ==
  Finished =>
    \A k \in DeclAt(lines) :
      ClosesAtBrace(lines, k) =>
        /\ Cardinality(PosOf(src, -k)) = 1
        /\ \A p \in PosOf(src, -k) :
             output_lines[p] = ConnectText(DeclIdent(lines[k]))

\* C4 (amended): every declaration line the outer loop reaches, from which
\* the count first returns to zero (after an opening brace) at a closing
\* brace, gets exactly one synthesized line for its identifier, placed after
\* the copy of the declaration line.
C4_VisitedDeclGetsLine ==
  Finished =>
    \A k \in DeclAt(lines) \cap Range(outerSeen) :
      ClosesAtBrace(lines, k) =>
        /\ Cardinality(PosOf(src, -k)) = 1
        /\ \A p \in PosOf(src, -k) :
             /\ output_lines[p] = ConnectText(DeclIdent(lines[k]))
             /\ \E q \in PosOf(src, k) : q < p

C4_Witness ==
  /\ pc = "done"
  /\ Len(lines) = 3
  /\ DeclAt(lines) = {1, 2}
  /\ outerSeen = <<1>>
  /\ ClosesAtBrace(lines, 1) /\ CloseLine(lines, 1) = 3
  /\ Cardinality(PosOf(src, -1)) = 1

\* C5: a scan started at a declaration whose brace count is never zero after
\* an opening brace runs to the end of the file: nothing is inserted for it,
\* no later declaration is processed, the declaration line and every line
\* after it appear once, in order, at the end of the output, and the run
\* ends normally.
C5_UnmatchedConsumesRest ==
  Finished =>
    \A k \in DeclAt(lines) \cap Range(outerSeen) :
      FirstZero(FromDecl(lines, k)) = 0 =>
        /\ PosOf(src, -k) = {}
        /\ \A q \in 1..Len(scans) : scans[q].at + 1 <= k
        /\ \A q \in 1..Len(outerSeen) : outerSeen[q] <= k
        /\ Len(output_lines) >= Len(lines) - k + 1
        /\ SubSeq(output_lines, Len(output_lines) - (Len(lines) - k),
                  Len(output_lines)) = SubSeq(lines, k, Len(lines))
        /\ scans[Len(scans)].end = "eof"
        /\ (pc = "done" => exit_code = 0)

C5_Witness ==
  /\ pc = "done" /\ exit_code = 0
  /\ Len(lines) = 3
  /\ DeclAt(lines) = {1, 3}
  /\ FirstZero(FromDecl(lines, 1)) = 0
  /\ Depth(FromDecl(lines, 1), Len(FromDecl(lines, 1))) = 2
  /\ outerSeen = <<1>>

\* C6: whenever the first run inserted lines, the second run on its output
\* changes it again and inserts as many lines as the first run did.
C6_SecondRunDuplicates ==
  (Len(log) >= 2 /\ log[1].ins >= 1) =>
     /\ WriteLines(log[2].out) # WriteLines(log[1].out)
     /\ log[2].ins = log[1].ins

\* C7: with a wrong argument count the program prints the usage message and
\* exits with code 1 and the file is neither read nor written; with one
\* argument it reads the file, overwrites it with the rewritten lines, then
\* prints the confirmation and ends with code 0; the file changes only in
\* the write that follows the end of the outer loop.
C7_ExitState ==
  pc = "exit" =>
    /\ argc # 2 /\ exit_code = 1 /\ stdout = <<UsageMsg>>
    /\ file = file0 /\ lines = <<>> /\ output_lines = <<>>
C7_DoneState ==
  pc = "done" =>
    /\ argc = 2 /\ exit_code = 0 /\ stdout = <<FixedMsg>>
    /\ lines = ReadLines(file0)
    /\ file = WriteLines(output_lines)
C7_Running ==
  pc \in {"outer", "inner"} => (file = file0 /\ stdout = <<>> /\ argc = 2)
C7_WriteStep ==
  file' # file =>
    /\ pc = "outer" /\ i >= Len(lines) /\ pc' = "print"
    /\ file' = WriteLines(output_lines)
C7_CommandLine ==
  /\ [](C7_ExitState /\ C7_DoneState /\ C7_Running)
  /\ [][C7_WriteStep /\ (pc = "print" => (pc' = "done" /\ file' = file))]_vars

C7_Witness ==
  /\ pc = "exit" /\ run = 2 /\ argc = 3
  /\ Len(log) = 1 /\ log[1].ins = 1
  /\ file = WriteLines(log[1].out) /\ file # WriteLines(log[1].inp)

\* C8: every scan that stopped before the end of the file stopped at a closing
\* brace that returned the count to zero after an opening brace, and
\* inserted exactly one line.
C8_StopOnlyAtClosingBrace ==
  \A q \in 1..Len(scans) :
    scans[q].end = "break" =>
      LET k == scans[q].at + 1
          c == scans[q].stop + 1
          s == BraceStr(lines, k, c)
      IN /\ Cardinality(PosOf(src, -k)) = 1
         /\ \E m \in 1..Len(s) :
              /\ m > Len(BraceStr(lines, k, c - 1))
              /\ s[m] = "}"
              /\ ZeroAfterOpen(s, m)

\* C9: at every point the synthesized lines are at most as many as the
\* declaration lines the outer loop has visited, at most one per scan, and
\* each is tab + identifier of its scan's declaration line +
\* ".ConnectToEventBus(eventBus)" + newline.
C9_SynthBounded ==
  /\ NumSynth(src) <= Cardinality(DeclAt(lines) \cap Range(outerSeen))
  /\ \A k \in 1..Len(lines) : Cardinality(PosOf(src, -k)) <= 1
  /\ \A p \in 1..Len(src) :
       src[p] < 0 =>
         /\ -src[p] \in DeclAt(lines) \cap Range(outerSeen)
         /\ output_lines[p] = ConnectText(DeclIdent(lines[-src[p]]))

C9_Witness ==
  /\ pc = "outer"
  /\ NumSynth(src) = 2
  /\ \E p, q \in 1..Len(src) :
       /\ src[p] < 0 /\ src[q] < 0
       /\ output_lines[p] = ConnectText("r")
       /\ output_lines[q] = ConnectText("s")

\* C10: i grows on every outer iteration, j grows on every inner iteration
\* that does not break, every input line is examined by the outer loop at
\* most once and copied at most once, and the rewrite reaches its end.
C10_LoopStep ==
  (pc \in {"outer", "inner"} /\ pc' \in {"outer", "inner"}) =>
    /\ i' >= i
    /\ (pc' = "outer" => i' > i)
    /\ ((pc = "inner" /\ pc' = "inner") => j' > j)
    /\ (pc = "outer" /\ pc' = "inner" => j' = i)
C10_CopiedOnce ==
  \A k \in 1..Len(lines) :
    /\ Cardinality(PosOf(src, k)) <= 1
    /\ Cardinality(PosOf(outerSeen, k)) <= 1
C10_Terminates ==
  /\ [][C10_LoopStep]_vars
  /\ []C10_CopiedOnce
  /\ (pc = "outer" ~> pc = "print")
  /\ (pc = "inner" ~> pc = "outer")

C10_Witness ==
  /\ pc = "print"
  /\ Len(scans) = 2
  /\ scans[1].end = "break" /\ scans[1].stop > scans[1].at
  /\ scans[2].end = "eof"
====
